---- MODULE Spec2Model ----
(***************************************************************************)
(* The record manager of pumposh/tezra-utils: a raw record store and a     *)
(* record-with-computed store kept side by side in Vue reactive objects,   *)
(* per-(id, field) watches that recompute derived values, cache metadata   *)
(* with expiration, and write-behind persistence to localStorage.          *)
(*                                                                         *)
(* Public calls are synchronous and atomic.  Vue runs the watch callbacks  *)
(* that a call schedules later, in one scheduler flush (flush: 'pre' jobs  *)
(* queued by queueJob and run from a microtask); only the first run of a   *)
(* watch created with immediate: true happens inside the call.             *)
(***************************************************************************)
EXTENDS Integers, FiniteSets, Sequences, TLC

\* ---------------------------------------------------------------- bounds
MaxX == 1          \* the records' field x ranges over 0..MaxX
MaxTime == 2       \* Date.now() ranges over 0..MaxTime
ConfiguredTtl == 1 \* the value of meta.ttl when one is configured

DEFAULT_TTL == 604800000

AllIds == {"a", "b"}                  \* the ids a caller may use

\* ------------------------------------------------------------- JS values
Undefined == [t |-> "undefined"]
Null == [t |-> "null"]
Num(n) == [t |-> "number", v |-> n]
Str(s) == [t |-> "string", s |-> s]
Obj(f) == [t |-> "object", f |-> f]
\* an array: its elements as the properties "0", "1", ... it has
Arr(f) == [t |-> "array", f |-> f]
NoProps == [p \in {} |-> Null]

typeof(v) == IF v.t \in {"null", "array"} THEN "object" ELSE v.t
IsObject(v) == v.t \in {"object", "array"}
IsArray(v) == v.t = "array"
ObjectKeys(v) == IF IsObject(v) THEN DOMAIN v.f ELSE {}
\* v?.[key], and v[key] of a non-nullish v
Prop(v, key) == IF IsObject(v) /\ key \in DOMAIN v.f THEN v.f[key] ELSE Undefined
\* The characters of a string, as the properties "0", "1", ... it has (the
\* strings here are the empty one, single characters and the text "{x").
Chars(v) ==
  CASE v.s = "" -> NoProps
    [] v.s = "{x" -> ("0" :> Str("{") @@ "1" :> Str("x"))
    [] OTHER -> ("0" :> v)
\* the properties { ...v } copies, which Object.entries(v) lists
Spread(v) == IF IsObject(v) THEN v.f ELSE IF v.t = "string" THEN Chars(v) ELSE NoProps
Assign(f, key, v) == [p \in DOMAIN f \cup {key} |-> IF p = key THEN v ELSE f[p]]
Truthy(v) ==
  CASE v.t = "undefined" -> FALSE
    [] v.t = "null" -> FALSE
    [] v.t = "number" -> v.v # 0
    [] v.t = "string" -> v.s # ""
    [] OTHER -> TRUE

isNullish(value) == value = Null \/ value = Undefined
nullishFilter(i) == ~isNullish(i)

\* the entries of a store (a TLA+ function on the keys present)
NoEntries == [i \in {} |-> Null]
Get(store, id) == IF id \in DOMAIN store THEN store[id] ELSE Undefined
\* objectFilter of ext/index.ts: the entries the callback keeps
objectFilter(object, callback(_)) ==
  [i \in {j \in DOMAIN object : callback(object[j])} |-> object[i]]

\* ------------------------------------------------------------ ext/diff.ts
\* The entries diffObjectsDeep accumulates in acc: one per differing leaf.
RECURSIVE diffObjectsDeep(_, _, _)
diffObjectsDeep(_prev, _next, path) ==
  LET prev == IF isNullish(_prev) THEN Obj(NoProps) ELSE _prev
      next == IF isNullish(_next) THEN Obj(NoProps) ELSE _next
      keys == ObjectKeys(prev) \cup ObjectKeys(next)
      entry(key) ==
        LET newPath == Append(path, key)
            value1 == Prop(prev, key)
            value2 == Prop(next, key)
        IN IF IsObject(value1) /\ IsObject(value2)
             THEN diffObjectsDeep(value1, value2, newPath)
             ELSE IF value1 # value2
                    THEN {[path |-> newPath, prev |-> value1, next |-> value2]}
                    ELSE {}
  IN UNION {entry(key) : key \in keys}

\* newPath.join('/')
RECURSIVE Join(_)
Join(path) == IF Len(path) = 1 THEN path[1] ELSE path[1] \o "/" \o Join(Tail(path))

\* What diffObjectsDeep(_prev, _next) returns at the root: acc, which holds
\* under each joined path the pair written for it (no key of the values the
\* function is called with here contains a '/', so no two paths are joined
\* to one key).
DiffRoot(entries) ==
  [key \in {Join(e.path) : e \in entries} |->
     [prev |-> (CHOOSE e \in entries : Join(e.path) = key).prev,
      next |-> (CHOOSE e \in entries : Join(e.path) = key).next]]

isEqual(a, b) ==
  IF typeof(a) # typeof(b) THEN FALSE
  ELSE IF isNullish(a) /\ isNullish(b) THEN TRUE
  ELSE IF ~isNullish(a) /\ isNullish(b) THEN FALSE
  ELSE IF isNullish(a) /\ ~isNullish(b) THEN FALSE
  ELSE IF typeof(a) = "object" /\ typeof(b) = "object"
         THEN diffObjectsDeep(a, b, <<>>) = {}
  ELSE a = b

\* ------------------------------------------------------------- helpers.ts
isItemWithComputed(i) == ~isNullish(Prop(i, "computed")) /\ "computed" \in ObjectKeys(i)

itemWithComputedToRaw(_item) ==
  IF isNullish(_item) THEN Null
  ELSE LET item == [p \in DOMAIN Spread(_item) \ {"computed"} |-> Spread(_item)[p]]
       IN IF DOMAIN item = {} THEN Null ELSE Obj(item)

\* ------------------------------------------------------------------ state
VARIABLES
  recordRaw,            \* the raw store: id -> record | null, on the keys present
  recordWithComputeds,  \* the computed store: id -> record with computed | null
  cacheMeta,            \* the cache metadata: id -> { expires } | null
  watches,              \* the subscription table: id -> the fields it holds a watch for
  live,                 \* Vue's watches: (id, field) -> how many watch() calls are live
  queue,                \* the scheduler's queued jobs (watch and write-back jobs)
  localStorage,         \* the durable storage: key -> stored JSON value
  now,                  \* Date.now()
  meta,                 \* the manager's options: persist, ttl (0: none configured)
  ids,                  \* the ids the callers of this manager use
  computedGetters,      \* the derivations: their names, their value for a missing record
  last,                 \* the last public call (or construction): its name, the id it named
  call                  \* the last call of a helper function: its arguments and its result

vars == <<recordRaw, recordWithComputeds, cacheMeta, watches, live, queue, localStorage,
          now, meta, ids, computedGetters, last, call>>

context == "ctx"
getKey(key) == "persist--" \o key
RecordsKey == getKey(context)
CacheMetaKey == getKey(context \o "[cache-meta]")

\* The records a caller passes: { id, x } or { id, x, y }.
Item(id, x) == Obj([id |-> Str(id), x |-> Num(x)])
ItemY(id, x) == Obj([id |-> Str(id), x |-> Num(x), y |-> Num(1)])
Items(id) == {Item(id, x) : x \in 0..MaxX} \cup {ItemY(id, x) : x \in 0..MaxX}

\* The declared derivations, (rawLookup) => (targetOrId, ...args) => value:
\* double is x * 2 and succ is x + 1, each plus the extra arguments, and what
\* the registry yields for a missing record is computedGetters.missing.
FieldSeq == computedGetters.fields    \* the keys of computedGetters, in order
Fields == {FieldSeq[i] : i \in 1..Len(FieldSeq)}
SumOf(args) == IF args = <<>> THEN 0 ELSE args[1]
Derive(k, target, args) ==
  IF isNullish(target) THEN computedGetters.missing
  ELSE IF k = "double" THEN Num(2 * target.f.x.v + SumOf(args))
  ELSE Num(target.f.x.v + 1 + SumOf(args))

\* The manager's memory as one value, threaded through a handler's statements.
\* calls counts the derivation invocations of the handler and ret holds the
\* value the last statement returned.
Mem ==
  [recordRaw |-> recordRaw, recordWithComputeds |-> recordWithComputeds,
   cacheMeta |-> cacheMeta, watches |-> watches, live |-> live, queue |-> queue,
   calls |-> 0, ret |-> Undefined]

Return(m, value) == [m EXCEPT !.ret = value]

recordRawGetter(m, id) ==
  IF isNullish(Get(m.recordRaw, id)) THEN Null ELSE m.recordRaw[id]

WatchedFields(m, id) == IF id \in DOMAIN m.watches THEN m.watches[id] ELSE {}
\* the jobs of the live watches whose getter reads recordRaw[id]
LiveCount(m, id, k) == IF <<id, k>> \in DOMAIN m.live THEN m.live[<<id, k>>] ELSE 0
WatchJobs(m, id) ==
  {[job |-> "watch", id |-> id, k |-> k] : k \in {f \in Fields : LiveCount(m, id, f) > 0}}
PersistJob(key) == [job |-> "persist", key |-> key]

\* Vue's set trap triggers on an added key and on a changed value; an object
\* written by the handlers is always a new object.
hasChanged(value, oldValue) == IsObject(value) \/ value # oldValue
Triggers(store, id, value) == id \notin DOMAIN store \/ hasChanged(value, store[id])
PutEntry(store, id, value) ==
  [i \in DOMAIN store \cup {id} |-> IF i = id THEN value ELSE store[i]]
DropEntry(store, id) == [i \in DOMAIN store \ {id} |-> store[i]]

\* recordRaw[id] = value: the watches of id read recordRaw[id], so they are queued
WriteRaw(m, id, value) ==
  [m EXCEPT !.recordRaw = PutEntry(@, id, value),
            !.queue = IF Triggers(m.recordRaw, id, value) THEN @ \cup WatchJobs(m, id) ELSE @]
DeleteRaw(m, id) ==
  [m EXCEPT !.recordRaw = DropEntry(@, id),
            !.queue = IF id \in DOMAIN m.recordRaw THEN @ \cup WatchJobs(m, id) ELSE @]

\* recordWithComputeds[id] = value: with persistence its write-back job is queued
WriteComputed(m, id, value) ==
  [m EXCEPT !.recordWithComputeds = PutEntry(@, id, value),
            !.queue = IF meta.persist /\ Triggers(m.recordWithComputeds, id, value)
                        THEN @ \cup {PersistJob(RecordsKey)} ELSE @]
DeleteComputed(m, id) ==
  [m EXCEPT !.recordWithComputeds = DropEntry(@, id),
            !.queue = IF meta.persist /\ id \in DOMAIN m.recordWithComputeds
                        THEN @ \cup {PersistJob(RecordsKey)} ELSE @]

WriteMeta(m, id, value) ==
  [m EXCEPT !.cacheMeta = PutEntry(@, id, value),
            !.queue = IF meta.persist /\ Triggers(m.cacheMeta, id, value)
                        THEN @ \cup {PersistJob(CacheMetaKey)} ELSE @]
DeleteMeta(m, id) ==
  [m EXCEPT !.cacheMeta = DropEntry(@, id),
            !.queue = IF meta.persist /\ id \in DOMAIN m.cacheMeta
                        THEN @ \cup {PersistJob(CacheMetaKey)} ELSE @]

\* recordWithComputeds[id]?.computed?.[k]
Cached(m, id, k) == Prop(Prop(Get(m.recordWithComputeds, id), "computed"), k)

\* A callback that drops the fresh value instead of caching it
WatchCallbackDropped(m, id, k, newVal) == Return(m, Null)

\* A callback that replaces the entry by one holding the new value only
WatchCallbackReplacing(m, id, k, newVal) ==
  IF isEqual(Cached(m, id, k), newVal) THEN Return(m, Null)
  ELSE Return(WriteComputed(m, id, Obj("computed" :> Obj(k :> newVal))), newVal)

\* The callback of the watch of (id, k), run with the getter's fresh value:
\* ret is the value result.value takes (null while the callback has not set it).
WatchCallback(m, id, k, newVal) ==
  IF isEqual(Cached(m, id, k), newVal) THEN Return(m, Null)
  ELSE Return(
         WriteComputed(m, id,
           Obj(Assign(Spread(Get(m.recordWithComputeds, id)), "computed",
                      Obj(Assign(Spread(Prop(Get(m.recordWithComputeds, id), "computed")),
                                 k, newVal))))),
         newVal)

\* One run of the watch of (id, k): the getter, then (deep: true) the callback.
RunWatch(m, id, k) ==
  WatchCallback([m EXCEPT !.calls = @ + 1], id, k, Derive(k, recordRawGetter(m, id), <<>>))

\* watches.set(id, { ...watches.get(id), [k]: watchFn }) for the watch just created
Register(m, id, k) ==
  [m EXCEPT !.live = PutEntry(@, <<id, k>>, LiveCount(m, id, k) + 1),
            !.watches = PutEntry(@, id, WatchedFields(m, id) \cup {k})]

\* A watchGetter that does not look for the watch it already has
watchGetterAgain(m, id, k) == Register(RunWatch(m, id, k), id, k)

\* watchGetter: the memory after it, ret holding result.value
watchGetter(m, id, k) ==
  IF k \in WatchedFields(m, id)
    THEN Return(m, Cached(m, id, k))
    ELSE Register(RunWatch(m, id, k), id, k)     \* immediate: true

\* The value initComputeds gives the field fnName
InitOne(m, id, item, fnName) ==
  IF isNullish(item) THEN Return(m, Null)
  ELSE IF fnName \notin WatchedFields(m, id) THEN watchGetter(m, id, fnName)
  ELSE Return(m, Cached(m, id, fnName))

\* initComputeds: the fields FieldSeq[i..] are still to do, value holds the
\* properties of those before; ret ends as the object of computed values.
RECURSIVE InitComputedsFrom(_, _, _, _, _)
RECURSIVE InitComputedsNext(_, _, _, _, _)
InitComputedsFrom(m, id, item, i, value) ==
  IF i > Len(FieldSeq) THEN Return(m, Obj(value))
  ELSE InitComputedsNext(InitOne(m, id, item, FieldSeq[i]), id, item, i, value)
InitComputedsNext(m, id, item, i, value) ==
  InitComputedsFrom(m, id, item, i + 1, Assign(value, FieldSeq[i], m.ret))

initComputeds(m, id, item) == InitComputedsFrom(m, id, item, 1, NoProps)

Expires(at) == Obj([expires |-> Num(at + (IF meta.ttl # 0 THEN meta.ttl ELSE DEFAULT_TTL))])

\* setRecordItem from "const withComputed" on; ic is the memory initComputeds left
StoreWithComputed(ic, id, raw) ==
  WriteComputed(ic, id, Obj(Assign(Spread(raw), "computed", ic.ret)))
\* A stamp that is given only to an id that has no metadata yet
StampMetaOnce(m, id) ==
  IF meta.persist /\ isNullish(Get(m.cacheMeta, id)) THEN WriteMeta(m, id, Expires(now)) ELSE m

StampMeta(m, id) == IF meta.persist THEN WriteMeta(m, id, Expires(now)) ELSE m

\* setRecordItem after "recordRaw[id] = raw"
StoreRaw(m, id, raw) ==
  IF raw = Null THEN WriteComputed(m, id, Null)
  ELSE StampMeta(StoreWithComputed(initComputeds(m, id, raw), id, raw), id)

\* An item stored as given, its computed field included
RawOfJoined(value) == value

\* const raw = isItemWithComputed(value) ? itemWithComputedToRaw(value) : value
RawOf(value) == IF isItemWithComputed(value) THEN itemWithComputedToRaw(value) ELSE value

setRecordItem(m, id, value) ==
  IF value = Null
    THEN WriteRaw(WriteComputed(m, id, Null), id, Null)
    ELSE StoreRaw(WriteRaw(m, id, RawOf(value)), id, RawOf(value))

RECURSIVE WatchFrom(_, _, _)
WatchFrom(m, id, i) ==
  IF i > Len(FieldSeq) THEN m ELSE WatchFrom(watchGetter(m, id, FieldSeq[i]), id, i + 1)

watchComputedGetters(m, id) == WatchFrom(m, id, 1)

\* setAndWatchGetters from "isEqual(itemComputed, ...)" on; ic is the memory
\* initComputeds left, its ret being itemComputed
SetWithComputed(ic, id, item) ==
  IF isEqual(ic.ret, Prop(Get(ic.recordWithComputeds, id), "computed"))
    THEN setRecordItem(ic, id, item)
    ELSE watchComputedGetters(
           setRecordItem(ic, id, Obj(Assign(Spread(item), "computed", ic.ret))), id)

setAndWatchGetters(m, id, item) ==
  IF Len(FieldSeq) = 0 \/ isNullish(item) \/ id \in DOMAIN m.watches
    THEN setRecordItem(m, id, item)
    ELSE SetWithComputed(initComputeds(m, id, item), id, item)

\* manager.set
ManagerSet(m, _item) ==
  IF isNullish(RawOf(_item)) THEN m
  ELSE setAndWatchGetters(m, RawOf(_item).f.id.s, RawOf(_item))

\* manager.get and manager.getRaw: ret is the value returned
\* A get that reads the entry and writes nothing
ManagerGetReadOnly(m, id) == Return(m, Get(m.recordWithComputeds, id))

ManagerGet(m, id) ==
  IF isNullish(Get(m.recordWithComputeds, id))
    THEN Return(setRecordItem(m, id, Null), Null)
    ELSE Return(m, m.recordWithComputeds[id])

ManagerGetRaw(m, id) ==
  IF isNullish(Get(m.recordRaw, id))
    THEN Return(setRecordItem(m, id, Null), Null)
    ELSE Return(m, m.recordRaw[id])

\* ---------------------------------------------------------------- nest.ts
\* A path is held as the segments path.split('/') yields.
\* parseInt(segment, 10), and the property an array keeps the index under
parseInt(segment) ==
  CASE segment = "0" -> 0
    [] segment = "1" -> 1
    [] segment = "01" -> 1
    [] OTHER -> -1                      \* NaN
IndexKey(index) ==
  CASE index = 0 -> "0"
    [] index = 1 -> "1"
    [] OTHER -> "NaN"
\* (v as object) || {}
OrEmpty(v) == IF Truthy(v) THEN v ELSE Obj(NoProps)
\* A new array that holds the element set and no other
WithElementOnly(currentValue, index, value) == Arr(Assign(NoProps, IndexKey(index), value))

\* const newArray = [...currentValue]; newArray[index] = value
WithElement(currentValue, index, value) == Arr(Assign(currentValue.f, IndexKey(index), value))

RECURSIVE setNestedChildOnRecord(_, _, _)
\* the branch of an array currentValue
SetInArray(obj, keys, currentValue, value) ==
  IF Len(keys) = 2
    THEN Obj(Assign(Spread(obj), keys[1], WithElement(currentValue, parseInt(keys[2]), value)))
    ELSE Obj(Assign(Spread(obj), keys[1],
           WithElement(currentValue, parseInt(keys[2]),
             setNestedChildOnRecord(
               OrEmpty(Prop(currentValue, IndexKey(parseInt(keys[2])))),
               SubSeq(keys, 3, Len(keys)), value))))

setNestedChildOnRecord(obj, keys, value) ==
  IF Len(keys) = 1 THEN Obj(Assign(Spread(obj), keys[1], value))
  ELSE IF IsArray(Prop(obj, keys[1])) THEN SetInArray(obj, keys, Prop(obj, keys[1]), value)
  ELSE Obj(Assign(Spread(obj), keys[1],
                  setNestedChildOnRecord(OrEmpty(Prop(obj, keys[1])), Tail(keys), value)))

\* manager.forEach: the ids of the entries the callback is called with
ManagerForEach(m) ==
  {id \in DOMAIN m.recordWithComputeds : ~isNullish(m.recordWithComputeds[id])}

\* The predicates a caller filters with: () => true and (item) => item?.x === 0
Preds == {"all", "x0"}
Satisfies(pred, item) == IF pred = "all" THEN TRUE ELSE Prop(item, "x") = Num(0)

\* manager.filter and manager.filterRaw: the mapping returned
ManagerFilter(m, pred) ==
  objectFilter(m.recordWithComputeds, LAMBDA item : ~isNullish(item) /\ Satisfies(pred, item))
ManagerFilterRaw(m, pred) ==
  objectFilter(m.recordRaw, LAMBDA item : Satisfies(pred, item))

\* manager.setChildOf from "if (keyIsDirectKey(key) && explicit)" on
SetChild(m, explicit, key, value) ==
  IF ~Truthy(explicit) THEN m
  ELSE IF Len(key) = 1 THEN ManagerSet(m, Obj(Assign(explicit.f, key[1], value)))
  ELSE ManagerSet(m, setNestedChildOnRecord(explicit, key, value))

\* A setChildOf that, as get does, leaves a null entry of an id it does not find
ManagerSetChildOfTombstone(m, id, key, value) ==
  IF ~Truthy(Get(m.recordWithComputeds, id)) THEN setRecordItem(m, id, Null)
  ELSE SetChild(m, itemWithComputedToRaw(m.recordWithComputeds[id]), key, value)

\* manager.setChildOf
ManagerSetChildOf(m, id, key, value) ==
  IF ~Truthy(Get(m.recordWithComputeds, id)) THEN m
  ELSE SetChild(m, itemWithComputedToRaw(m.recordWithComputeds[id]), key, value)

\* An unset that nulls the entries of the id and does not delete them
ManagerUnsetNulled(m, id) ==
  WriteMeta(WriteRaw(WriteComputed(m, id, Null), id, Null), id, Null)

\* An unset that leaves the metadata of the id
ManagerUnsetKeepingMeta(m, id) ==
  DeleteRaw(DeleteComputed(WriteRaw(WriteComputed(m, id, Null), id, Null), id), id)

\* manager.unset
ManagerUnset(m, id) ==
  DeleteMeta(DeleteRaw(DeleteComputed(
    WriteMeta(WriteRaw(WriteComputed(m, id, Null), id, Null), id, Null), id), id), id)

\* f(... f(f(m, x1), x2) ..., xn) over the elements of S; the handlers folded
\* this way act on distinct ids, so the order does not change the result.
RECURSIVE FoldSet(_, _, _)
FoldSet(f(_, _), m, S) ==
  IF S = {} THEN m
  ELSE FoldSet(f, f(m, CHOOSE y \in S : TRUE), S \ {CHOOSE y \in S : TRUE})

ManagerReset(m) == FoldSet(ManagerUnset, m, DOMAIN m.recordWithComputeds)

ManagerResetComputed(m) == FoldSet(watchComputedGetters, m, DOMAIN m.recordWithComputeds)

\* manager.update and manager.overwrite; items is a mapping id -> item
RECURSIVE ManagerUpdateOn(_, _, _)
ManagerUpdateOn(m, items, S) ==
  IF S = {} THEN m
  ELSE ManagerUpdateOn(ManagerSet(m, items[CHOOSE y \in S : TRUE]), items,
                       S \ {CHOOSE y \in S : TRUE})

ManagerUpdate(m, items) == ManagerUpdateOn(m, items, DOMAIN items)

ManagerOverwrite(m, items) == ManagerUpdate(ManagerReset(m), items)

\* cacheMappedComputedGetters from "if (args.length === 0 && cached)" on
GetterReturn(m, name, id, args, cached) ==
  IF args = <<>> /\ Truthy(cached) THEN Return(m, cached)
  ELSE Return([m EXCEPT !.calls = @ + 1], Derive(name, recordRawGetter(m, id), args))

\* cacheMappedComputedGetters[name](maybeID, ...args): ret is the value returned
cacheMappedComputedGetters(m, name, maybeID, args) ==
  IF isNullish(maybeID)
    THEN Return([m EXCEPT !.calls = @ + 1], Derive(name, maybeID, args))
    ELSE IF name \in WatchedFields(m, maybeID.s)
      THEN GetterReturn(m, name, maybeID.s, args, Cached(m, maybeID.s, name))
      ELSE GetterReturn(watchGetter(m, maybeID.s, name), name, maybeID.s, args,
                        IF isNullish(watchGetter(m, maybeID.s, name).ret)
                          THEN Cached(m, maybeID.s, name)
                          ELSE watchGetter(m, maybeID.s, name).ret)

\* ------------------------------------------------------- ext/persistence.ts
\* What JSON.stringify keeps of a value: properties holding undefined are dropped.
RECURSIVE JSONValue(_)
JSONValue(v) ==
  IF IsObject(v)
    THEN Obj([p \in {q \in DOMAIN v.f : v.f[q] # Undefined} |-> JSONValue(v.f[p])])
    ELSE v

\* The callback of initWatch for a reactive object bound without includeNullish.
Stringify(valueToStore) == [i \in DOMAIN valueToStore |-> JSONValue(valueToStore[i])]

\* A write-back that keeps the nullish values (includeNullish)
initWatchIncludingNullish(ls, key, newValue) ==
  IF DOMAIN newValue # {} THEN PutEntry(ls, key, Stringify(newValue)) ELSE DropEntry(ls, key)

initWatch(ls, key, newValue) ==
  IF DOMAIN objectFilter(newValue, nullishFilter) # {}
    THEN PutEntry(ls, key, Stringify(objectFilter(newValue, nullishFilter)))
    ELSE DropEntry(ls, key)

\* The storage holds, under a key, either the mapping that is the JSON text
\* of an object (what initWatch stores) or a text of another kind, held as
\* the string it is.
IsText(data) == "t" \in DOMAIN data
\* forceParse: JSON.parse(data), or data itself when that throws
forceParse(data) ==
  CASE ~IsText(data) -> data
    [] data = Str("5") -> Num(5)
    [] data = Str("null") -> Null
    [] OTHER -> data
\* reactive(parsedValue): a primitive is returned as it is, and is held here
\* as the entries Object.entries lists of it (writing to it throws)
Reactive(parsedValue) == IF IsText(parsedValue) THEN Spread(parsedValue) ELSE parsedValue

\* ls.reactive(key, {}): the parsed stored value, or the default
lsReactive(ls, key) ==
  IF getKey(key) \in DOMAIN ls THEN Reactive(forceParse(ls[getKey(key)])) ELSE NoEntries

\* ------------------------------------------------------- expiration sweep
\* A sweep that evicts nothing
cleanUpOneKept(m, id) == m

cleanUpOne(m, id) ==
  IF ~Truthy(m.cacheMeta[id]) THEN m
  ELSE IF m.cacheMeta[id].f.expires.v < now
    THEN WriteMeta(WriteComputed(WriteRaw(
           DeleteMeta(DeleteComputed(DeleteRaw(m, id), id), id), id, Null), id, Null), id, Null)
    ELSE m

cleanUpCache(m) == FoldSet(cleanUpOne, m, DOMAIN m.cacheMeta)

\* ---------------------------------------------------------------- scheduler
\* One flush of the scheduler: the queued watches run, then the write-back jobs
\* (those the watch callbacks queue included).
RunJob(m, job) == RunWatch(m, job.id, job.k)

\* A flush that sweeps the expired records as well
FlushWatchesSweeping(m) == cleanUpCache(FoldSet(RunJob, m, {j \in m.queue : j.job = "watch"}))

FlushWatches(m) == FoldSet(RunJob, m, {j \in m.queue : j.job = "watch"})

\* A write-back job that writes nothing
FlushKeySkipped(m, ls, key, store) == ls

FlushKey(m, ls, key, store) ==
  IF PersistJob(key) \in m.queue THEN initWatch(ls, key, store) ELSE ls

FlushStorage(m, ls) ==
  FlushKey(m, FlushKey(m, ls, RecordsKey, m.recordWithComputeds), CacheMetaKey, m.cacheMeta)

\* ------------------------------------------------------------- construction
\* A reconcile that keeps the raw entry an id already has
ReconcileKept(raw, id, item) ==
  IF id \in DOMAIN raw THEN raw ELSE PutEntry(raw, id, itemWithComputedToRaw(item))

\* "If computed records have persisted, ensure raw records are updated"
Reconcile(raw, id, item) ==
  IF isEqual(itemWithComputedToRaw(item), Get(raw, id)) THEN raw
  ELSE PutEntry(raw, id, itemWithComputedToRaw(item))

RECURSIVE ReconcileAll(_, _, _)
ReconcileAll(raw, loaded, S) ==
  IF S = {} THEN raw
  ELSE ReconcileAll(Reconcile(raw, CHOOSE y \in S : TRUE, loaded[CHOOSE y \in S : TRUE]),
                    loaded, S \ {CHOOSE y \in S : TRUE})

\* if (meta?.initial) Object.entries(meta.initial).forEach(setAndWatchGetters)
SetInitial(m, id) == setAndWatchGetters(m, id, m.recordRaw[id])

ApplyInitial(m, initial) ==
  IF initial.has THEN FoldSet(SetInitial, m, DOMAIN m.recordRaw) ELSE m

\* The stores as recordManager(meta)(computedGetters) binds them on the storage ls
Loaded(ls, key) == IF meta.persist THEN lsReactive(ls, key) ELSE NoEntries

\* The memory of a manager constructed on the storage ls, and the storage after
\* the first (immediate) run of the two write-back watches
\* initial is meta.initial: has tells whether one is given. The raw store is
\* reactive(meta.initial), so an entry of the raw store is an entry of
\* meta.initial, and the entries applied at the end are those of the raw store.
Construct(ls, initial) ==
  ApplyInitial(
    cleanUpCache(
      [recordRaw |-> ReconcileAll(initial.entries, Loaded(ls, context), DOMAIN Loaded(ls, context)),
       recordWithComputeds |-> Loaded(ls, context),
       cacheMeta |-> Loaded(ls, context \o "[cache-meta]"),
       watches |-> NoEntries, live |-> NoEntries, queue |-> {}, calls |-> 0, ret |-> Undefined]),
    initial)

ConstructStorage(ls) ==
  IF meta.persist
    THEN initWatch(initWatch(ls, RecordsKey, Loaded(ls, context)),
                   CacheMetaKey, Loaded(ls, context \o "[cache-meta]"))
    ELSE ls

\* ------------------------------------------------------------------ actions
Store(m, ls) ==
  /\ recordRaw' = m.recordRaw
  /\ recordWithComputeds' = m.recordWithComputeds
  /\ cacheMeta' = m.cacheMeta
  /\ watches' = m.watches
  /\ live' = m.live
  /\ queue' = m.queue
  /\ localStorage' = ls
  /\ UNCHANGED <<now, meta, ids, computedGetters, call>>

Commit(m, ls, op, id) == Store(m, ls) /\ last' = [op |-> op, id |-> id]

\* A record read earlier and passed back: the item with stale computed values.
Joined(item) == Obj(Assign(item.f, "computed", Obj([double |-> Num(7)])))
SetInputs(id) == Items(id) \cup {Joined(Item(id, MaxX))}

Set(item) == Commit(ManagerSet(Mem, item), localStorage, "set", item.f.id.s)

GetOp(id) == Commit(ManagerGet(Mem, id), localStorage, "get", id)

GetRaw(id) == Commit(ManagerGetRaw(Mem, id), localStorage, "getRaw", id)

SetChildOf(id, key, value) ==
  Commit(ManagerSetChildOf(Mem, id, key, value), localStorage, "setChildOf", id)

Unset(id) == Commit(ManagerUnset(Mem, id), localStorage, "unset", id)

\* A record with an array of two elements, the paths into it that setChildOf
\* is given (as their segments) and the values given for each
Named(name) == Obj([name |-> Str(name)])
NestItem(id, x) ==
  Obj([id |-> Str(id), x |-> Num(x), items |-> Arr("0" :> Named("y") @@ "1" :> Named("z"))])
NestPaths ==
  {<<"x">>, <<"items", "0">>, <<"items", "1">>, <<"items", "0", "name">>,
   <<"items", "1", "name">>}
NestValues(key) ==
  IF key = <<"x">> THEN {Num(x) : x \in 0..MaxX}
  ELSE IF Len(key) = 2 THEN {Named("w"), Obj([name |-> Str("y"), n |-> Num(1)])}
  ELSE {Str("w")}

\* localStorage.removeItem(meta.context), as reset does with persistence
RemoveContext(ls) == IF meta.persist THEN DropEntry(ls, context) ELSE ls

Reset == Commit(ManagerReset(Mem), RemoveContext(localStorage), "reset", "")

ResetComputed == Commit(ManagerResetComputed(Mem), localStorage, "resetComputed", "")

ItemMaps == UNION {[S -> {Item(id, x) : id \in S, x \in 0..MaxX}] : S \in SUBSET ids}
ByID == {items \in ItemMaps : \A id \in DOMAIN items : items[id].f.id.s = id}

Update(items) == Commit(ManagerUpdate(Mem, items), localStorage, "update", "")

Overwrite(items) ==
  Commit(ManagerOverwrite(Mem, items), RemoveContext(localStorage), "overwrite", "")

Getter(name, maybeID, args) ==
  Commit(cacheMappedComputedGetters(Mem, name, maybeID, args), localStorage,
         "getter", IF isNullish(maybeID) THEN "" ELSE maybeID.s)

FlushCommit(m) ==
  \E ls \in {FlushStorage(m, localStorage)} :
    Store([m EXCEPT !.queue = {}], ls) /\ UNCHANGED last

\* (the memory and the storage the flush leaves are bound once)
Flush == queue # {} /\ \E m \in {FlushWatches(Mem)} : FlushCommit(m)

Tick ==
  /\ now < MaxTime
  /\ now' = now + 1
  /\ UNCHANGED <<recordRaw, recordWithComputeds, cacheMeta, watches, live, queue, localStorage,
                 meta, ids, computedGetters, last, call>>

\* The page is loaded again: a new manager is constructed on the same storage.
\* The values of meta.initial: none, an empty mapping, the record of "a"
Initials ==
  {[has |-> FALSE, entries |-> NoEntries],
   [has |-> TRUE, entries |-> NoEntries],
   [has |-> TRUE, entries |-> ("a" :> Item("a", MaxX))]}

Reload(initial) ==
  /\ meta.persist
  /\ Commit(Construct(localStorage, initial), ConstructStorage(localStorage), "construct", "")

\* ------------------------------------------------------- helper functions
NoCall == [fn |-> "none"]

\* The values the helper functions are called with
SomeValues ==
  {Undefined, Null, Num(0), Num(1), Str(""), Str("a"), Obj(NoProps),
   Obj([x |-> Num(0)]), Obj([x |-> Num(1)]), Obj([x |-> Undefined]), Obj([x |-> Null]),
   Obj([o |-> Obj([x |-> Num(0)])]), Obj([o |-> Obj([x |-> Num(1)])]),
   Arr("0" :> Num(0)), Obj("0" :> Num(0))}

IsEqualCall(a, b) ==
  /\ call' = [fn |-> "isEqual", a |-> a, b |-> b, result |-> isEqual(a, b)]
  /\ UNCHANGED <<recordRaw, recordWithComputeds, cacheMeta, watches, live, queue, localStorage,
                 now, meta, ids, computedGetters, last>>

DiffCall(a, b) ==
  /\ call' = [fn |-> "diffObjectsDeep", a |-> a, b |-> b,
              result |-> DiffRoot(diffObjectsDeep(a, b, <<>>))]
  /\ UNCHANGED <<recordRaw, recordWithComputeds, cacheMeta, watches, live, queue, localStorage,
                 now, meta, ids, computedGetters, last>>

\* The storages a manager is constructed on: an empty one, one holding the
\* record of "a" with its metadata, and one whose text is not JSON
Storages ==
  {NoEntries,
   RecordsKey :> ("a" :> Joined(Item("a", 0))) @@
     CacheMetaKey :> ("a" :> Obj([expires |-> Num(MaxTime)])),
   RecordsKey :> Str("{x")}

ConstructOn(ls) ==
  /\ meta.persist
  /\ Commit(Construct(ls, [has |-> FALSE, entries |-> NoEntries]),
            ConstructStorage(ls), "construct", "")

\* The manager without persistence, right after construction.
Init ==
  /\ meta = [persist |-> FALSE, ttl |-> 0]
  /\ ids = AllIds
  /\ computedGetters \in {[fields |-> <<"double">>, missing |-> v] : v \in {Undefined, Num(0)}}
  /\ now = 0
  /\ localStorage = NoEntries
  /\ recordRaw = NoEntries
  /\ recordWithComputeds = NoEntries
  /\ cacheMeta = NoEntries
  /\ watches = NoEntries
  /\ live = NoEntries
  /\ queue = {}
  /\ last = [op |-> "construct", id |-> ""]
  /\ call = NoCall

\* The manager without persistence whose callers hold records with an array.
InitNest ==
  /\ meta = [persist |-> FALSE, ttl |-> 0]
  /\ ids = {"a"}
  /\ computedGetters \in {[fields |-> <<"double">>, missing |-> v] : v \in {Undefined, Num(0)}}
  /\ now = 0
  /\ localStorage = NoEntries
  /\ recordRaw = NoEntries
  /\ recordWithComputeds = NoEntries
  /\ cacheMeta = NoEntries
  /\ watches = NoEntries
  /\ live = NoEntries
  /\ queue = {}
  /\ last = [op |-> "construct", id |-> ""]
  /\ call = NoCall

\* The manager with persistence, constructed on an empty storage.
InitPersist ==
  /\ meta \in {[persist |-> TRUE, ttl |-> t] : t \in {0, ConfiguredTtl}}
  /\ ids = {"a"}
  /\ computedGetters \in {[fields |-> <<"double">>, missing |-> v] : v \in {Undefined, Num(0)}}
  /\ now = 0
  /\ localStorage = NoEntries
  /\ recordRaw = NoEntries
  /\ recordWithComputeds = NoEntries
  /\ cacheMeta = NoEntries
  /\ watches = NoEntries
  /\ live = NoEntries
  /\ queue = {}
  /\ last = [op |-> "construct", id |-> ""]
  /\ call = NoCall

\* The public calls
Ops ==
  \/ \E id \in ids : \E item \in SetInputs(id) : Set(item)
  \/ \E id \in ids : GetOp(id)
  \/ \E id \in ids : GetRaw(id)
  \/ \E id \in ids : \E v \in 0..MaxX : SetChildOf(id, <<"x">>, Num(v))
  \/ \E id \in ids : SetChildOf(id, <<"y">>, Num(1))
  \/ \E id \in ids : Unset(id)
  \/ Reset
  \/ ResetComputed
  \/ \E items \in ByID : Update(items)
  \/ \E items \in ByID : Overwrite(items)
  \/ \E name \in Fields : \E maybeID \in {Str(id) : id \in ids} \cup {Undefined} :
       \E args \in {<<>>, <<1>>} : Getter(name, maybeID, args)

Next == Ops \/ Flush

\* The public calls of the callers that hold records with an array
OpsNest ==
  \/ \E id \in ids : \E x \in 0..MaxX : Set(NestItem(id, x))
  \/ \E id \in ids : \E key \in NestPaths : \E value \in NestValues(key) :
       SetChildOf(id, key, value)
  \/ \E id \in ids : GetRaw(id)
  \/ \E id \in ids : Unset(id)

NextNest == OpsNest \/ Flush

NextPersist == Ops \/ Flush \/ Tick \/ \E initial \in Initials : Reload(initial)

Spec == Init /\ [][Next]_vars

SpecNest == InitNest /\ [][NextNest]_vars

\* The manager of one id, with persistence or without
InitEither == InitPersist \/ InitNest

SpecEither == InitEither /\ [][NextPersist]_vars

\* The helper functions, called with values of every kind
NextHelpers ==
  \/ \E a \in SomeValues : \E b \in SomeValues : IsEqualCall(a, b)
  \/ \E a \in SomeValues : \E b \in SomeValues : DiffCall(a, b)
  \/ \E ls \in Storages : ConstructOn(ls)

SpecHelpers == InitPersist /\ [][NextHelpers]_vars

SpecPersist == InitPersist /\ [][NextPersist]_vars

\* The calls that change the stores of a manager with persistence; the
\* scheduler runs the jobs that are queued (a microtask of the event loop), so
\* a flush that stays possible is taken.
NextWriteBack ==
  \/ \E id \in ids : \E x \in 0..MaxX : Set(Item(id, x))
  \/ \E id \in ids : Unset(id)
  \/ Reset
  \/ \E name \in Fields : \E id \in ids : Getter(name, Str(id), <<>>)
  \/ Flush
  \/ Tick
  \/ \E initial \in Initials : Reload(initial)

SpecWriteBack == InitPersist /\ [][NextWriteBack]_vars /\ WF_vars(Flush)

\* ------------------------------------------------------------ observations
IsRecord(v) == IsObject(v) /\ "id" \in DOMAIN v.f
\* an entry of the computed store without its computed field
WithoutComputed(v) == Obj([p \in DOMAIN v.f \ {"computed"} |-> v.f[p]])
\* A length that counts every entry of the computed store
LengthOfKeys == Cardinality(DOMAIN recordWithComputeds)

\* manager.length
Length ==
  Cardinality({id \in DOMAIN recordWithComputeds : nullishFilter(recordWithComputeds[id])})
\* manager.filter(() => true)
FilterAll == objectFilter(recordWithComputeds, nullishFilter)
Pending(id, k) == [job |-> "watch", id |-> id, k |-> k] \in queue
\* the derivations as declared: double is x * 2, succ is x + 1
Declared(k, record) == IF k = "double" THEN Num(record.f.x.v * 2) ELSE Num(record.f.x.v + 1)

\* C1: in every reachable state, every non-null entry of the computed store
\* is, without its computed field, equal to the raw store's entry of the same
\* id (which is then non-null too).
C1_ComputedConsistency ==
  \A id \in DOMAIN recordWithComputeds :
    ~isNullish(recordWithComputeds[id]) =>
      /\ ~isNullish(Get(recordRaw, id))
      /\ WithoutComputed(recordWithComputeds[id]) = recordRaw[id]


\* C2: a call set(item) leaves the raw store's entry of item.id equal to the
\* item without its computed field: every field of the item is there, no
\* computed field is, and no field of an earlier record survives.
C2_SetReplacesRaw ==
  [][\A id \in ids : \A item \in SetInputs(id) :
       (last' = [op |-> "set", id |-> id] /\ Set(item)) =>
         /\ ManagerGetRaw(Mem, id).ret' = WithoutComputed(item)
         /\ recordRaw'[id] = WithoutComputed(item)]_vars

\* C2 happens: a set has replaced the record of "a", whose cached double
\* still is the one of the earlier record with x = 1.
C2_Witness ==
  /\ last = [op |-> "set", id |-> "a"]
  /\ Get(recordRaw, "a") = Item("a", 0)
  /\ Cached(Mem, "a", "double") = Num(2)

\* C3: once the last set has returned and every recomputation it queued has
\* run, the cached value of each declared field is the derivation applied to
\* the raw record of the last set.
C3_ChangePropagation ==
  \A id \in ids : \A k \in Fields :
    (last = [op |-> "set", id |-> id] /\ ~Pending(id, k)) =>
      /\ IsRecord(Get(recordRaw, id))
      /\ Cached(Mem, id, k) = Declared(k, recordRaw[id])

\* C3 happens: the record of "a" was set, then set again with the largest x,
\* and the recomputations have run.
C3_Witness ==
  /\ last = [op |-> "set", id |-> "a"]
  /\ queue = {}
  /\ Get(recordRaw, "a") = Item("a", MaxX)
  /\ Cached(Mem, "a", "double") = Num(2 * MaxX)

\* C4: there is never more than one live watch of a pair of id and declared
\* field, and after a set of an id there is exactly one for each declared
\* field.
C4_OneWatch ==
  /\ \A key \in DOMAIN live : live[key] <= 1
  /\ \A id \in ids : \A k \in Fields :
       last = [op |-> "set", id |-> id] => LiveCount(Mem, id, k) = 1

\* C4 happens: "a" was set at least twice (its cached double is the one of an
\* earlier record) and has one live watch.
C4_Witness ==
  /\ last = [op |-> "set", id |-> "a"]
  /\ Get(recordRaw, "a") = Item("a", 0)
  /\ Cached(Mem, "a", "double") = Num(2)
  /\ LiveCount(Mem, "a", "double") = 1
  /\ "double" \in WatchedFields(Mem, "a")


\* the memory after a call of the getter of k for id, counting from no call
GetterCall(m, id, k) == cacheMappedComputedGetters([m EXCEPT !.calls = 0], k, Str(id), <<>>)

\* C5: after a set of an id, once its recomputations have run, two consecutive
\* calls of a declared field's getter for that id, with no extra argument and
\* no change of the record in between, return the same value and the second
\* does not invoke the derivation, whatever the derived value is.
C5_Memoized ==
  \A id \in ids : \A k \in Fields :
    (last = [op |-> "set", id |-> id] /\ queue = {}) =>
      /\ GetterCall(GetterCall(Mem, id, k), id, k).ret = GetterCall(Mem, id, k).ret
      /\ GetterCall(GetterCall(Mem, id, k), id, k).calls = 0


\* C6: when reset was the last public call, length is 0 and
\* filter(() => true) is the empty mapping, whatever has run since.
C6_ResetEmpties ==
  last.op = "reset" => (Length = 0 /\ FilterAll = NoEntries)

\* C7: when unset(id) was the last public call, id is a key of none of the
\* raw store, the computed store and the cache metadata, whatever has run
\* since.
C7_UnsetRemoves ==
  \A id \in ids :
    last = [op |-> "unset", id |-> id] =>
      /\ id \notin DOMAIN recordRaw
      /\ id \notin DOMAIN recordWithComputeds
      /\ id \notin DOMAIN cacheMeta

\* C8: after unset(id) the subscription table has no entry for id and no
\* watch of id is live; after reset that holds of every id.
C8_Teardown ==
  /\ \A id \in ids : \A k \in Fields :
       last = [op |-> "unset", id |-> id] =>
         (id \notin DOMAIN watches /\ LiveCount(Mem, id, k) = 0)
  /\ last.op = "reset" => (watches = NoEntries /\ \A key \in DOMAIN live : live[key] = 0)


\* what the storage holds of the context: its records and their metadata
PersistedRecords == Loaded(localStorage, context)
PersistedMeta == Loaded(localStorage, context \o "[cache-meta]")
PersistedExpired(id) ==
  id \in DOMAIN PersistedMeta /\ PersistedMeta[id].f.expires.v < now
PersistedFresh(id) ==
  id \in DOMAIN PersistedMeta /\ PersistedMeta[id].f.expires.v >= now

\* C9: a manager constructed on a storage whose metadata of an id expired
\* strictly before the current time has, right after construction, null as
\* getRaw(id) and get(id) and no live metadata of the id; an id whose
\* metadata has not expired keeps its persisted record.
C9_SweepAtConstruction ==
  [][Reload([has |-> FALSE, entries |-> NoEntries]) =>
       \A id \in ids :
         /\ PersistedExpired(id) =>
              /\ ManagerGetRaw(Mem, id).ret' = Null
              /\ ManagerGet(Mem, id).ret' = Null
              /\ recordRaw'[id] = Null
              /\ recordWithComputeds'[id] = Null
              /\ ~Truthy(Get(cacheMeta', id))
         /\ (PersistedFresh(id) /\ id \in DOMAIN PersistedRecords) =>
              /\ recordWithComputeds'[id] = PersistedRecords[id]
              /\ recordRaw'[id] = WithoutComputed(PersistedRecords[id])
              /\ cacheMeta'[id] = PersistedMeta[id]]_vars

\* C9 happens: the manager was constructed and has swept the record of "a".
C9_Witness ==
  /\ last.op = "construct"
  /\ "a" \in DOMAIN cacheMeta /\ cacheMeta["a"] = Null
  /\ Get(recordRaw, "a") = Null
  /\ Get(recordWithComputeds, "a") = Null

\* a record of the live manager whose expires instant has passed
LiveExpired(id) ==
  /\ IsRecord(Get(recordRaw, id))
  /\ Truthy(Get(cacheMeta, id))
  /\ cacheMeta[id].f.expires.v < now

\* C10: no step of a live manager other than a mutating public call evicts a
\* record whose expires instant has passed: a flush, the passing of time and
\* the reading calls leave its raw record, its entry of the computed store
\* (up to the computed values) and its metadata as they were.
C10_NoEvictionWhileLive ==
  [][(last'.op \in {"get", "getRaw", "getter", "resetComputed"} \/ Tick \/ Flush) =>
       \A id \in ids :
         LiveExpired(id) =>
           /\ recordRaw'[id] = recordRaw[id]
           /\ ManagerGetRaw(Mem, id).ret' = recordRaw[id]
           /\ cacheMeta'[id] = cacheMeta[id]
           /\ IsRecord(Get(recordWithComputeds', id))
           /\ WithoutComputed(recordWithComputeds'[id]) = recordRaw[id]]_vars

\* C10 happens: the record of "a" is read and its recomputations have run
\* although its expires instant has passed.
C10_Witness ==
  /\ LiveExpired("a")
  /\ last = [op |-> "getRaw", id |-> "a"]
  /\ queue = {}
  /\ now = MaxTime
  /\ ManagerGetRaw(Mem, "a").ret = recordRaw["a"]


\* the two record stores of a memory
Stores(m) == <<m.recordRaw, m.recordWithComputeds>>

\* C11: get(id) of an id that is a key of neither store returns null and
\* leaves a null entry of the id in the raw store and in the computed store;
\* a second get(id) or getRaw(id) returns null again and leaves both stores
\* as the first call left them, and length is what it was.
C11_TombstoneIdempotent ==
  [][\A id \in ids :
       (/\ last' = [op |-> "get", id |-> id]
        /\ id \notin DOMAIN recordRaw
        /\ id \notin DOMAIN recordWithComputeds
        /\ GetOp(id)) =>
         /\ ManagerGet(Mem, id).ret = Null
         /\ id \in DOMAIN recordRaw' /\ recordRaw'[id] = Null
         /\ id \in DOMAIN recordWithComputeds' /\ recordWithComputeds'[id] = Null
         /\ ManagerGet(Mem, id).ret' = Null
         /\ Stores(ManagerGet(Mem, id))' = <<recordRaw', recordWithComputeds'>>
         /\ ManagerGetRaw(Mem, id).ret' = Null
         /\ Stores(ManagerGetRaw(Mem, id))' = <<recordRaw', recordWithComputeds'>>
         /\ Length' = Length]_vars

\* C11 happens: get("a") has left a null entry of "a" in both stores while
\* "b" holds a record.
C11_Witness ==
  /\ last = [op |-> "get", id |-> "a"]
  /\ "a" \in DOMAIN recordRaw /\ recordRaw["a"] = Null
  /\ "a" \in DOMAIN recordWithComputeds /\ recordWithComputeds["a"] = Null
  /\ IsRecord(Get(recordRaw, "b"))
  /\ Length = 1


\* the value a path of segments leads to in v (undefined where it leads nowhere)
RECURSIVE ValueAt(_, _)
ValueAt(v, path) == IF path = <<>> THEN v ELSE ValueAt(Prop(v, Head(path)), Tail(path))
Segments == {"id", "x", "items", "0", "1", "name", "n", "computed"}
Paths == UNION {[1..n -> Segments] : n \in 1..3}
IsPrefix(p, q) == Len(p) <= Len(q) /\ SubSeq(q, 1, Len(p)) = p
ProperPrefixes(p) == {SubSeq(p, 1, n) : n \in 0..(Len(p) - 1)}

\* C12: setChildOf(id, path, value) on an existing record, the path leading
\* to a field, to an array element or to a field of an array element, leaves
\* getRaw(id) with the value at the path, with every container on the path
\* of the kind and with the keys it had, and with every value off the path as
\* it was.
C12_NestedChildSet ==
  [][\A id \in ids : \A key \in NestPaths : \A value \in NestValues(key) :
       (/\ last' = [op |-> "setChildOf", id |-> id]
        /\ IsRecord(Get(recordRaw, id))
        /\ SetChildOf(id, key, value)) =>
         /\ ManagerGetRaw(Mem, id).ret' = recordRaw'[id]
         /\ ValueAt(recordRaw'[id], key) = value
         /\ \A p \in ProperPrefixes(key) :
              /\ ValueAt(recordRaw'[id], p).t = ValueAt(recordRaw[id], p).t
              /\ ObjectKeys(ValueAt(recordRaw'[id], p)) = ObjectKeys(ValueAt(recordRaw[id], p))
         /\ \A q \in Paths :
              (~IsPrefix(key, q) /\ ~IsPrefix(q, key)) =>
                ValueAt(recordRaw'[id], q) = ValueAt(recordRaw[id], q)]_vars

\* C12 happens: the name of the first element of items was set and the
\* second element is as it was.
C12_Witness ==
  /\ last = [op |-> "setChildOf", id |-> "a"]
  /\ IsRecord(Get(recordRaw, "a"))
  /\ IsArray(ValueAt(recordRaw["a"], <<"items">>))
  /\ ValueAt(recordRaw["a"], <<"items", "0", "name">>) = Str("w")
  /\ ValueAt(recordRaw["a"], <<"items", "1">>) = Named("z")


\* the ids a store holds a non-null entry of
NonNull(store) == {id \in DOMAIN store : ~isNullish(store[id])}

\* C13: when overwrite(items) returns, the ids with a non-null entry are, in
\* both stores, exactly the ids of the items, and getRaw of each is the item
\* given; and the recomputations that run after the call bring no other id
\* back.
C13_OverwriteReplaces ==
  [][/\ \A items \in ByID :
          (last'.op = "overwrite" /\ Overwrite(items)) =>
            /\ NonNull(recordRaw') = DOMAIN items
            /\ NonNull(recordWithComputeds') = DOMAIN items
            /\ \A id \in DOMAIN items : ManagerGetRaw(Mem, id).ret' = items[id]
     /\ (last.op = "overwrite" /\ Flush) =>
            /\ NonNull(recordRaw') = NonNull(recordRaw)
            /\ NonNull(recordWithComputeds') = NonNull(recordWithComputeds)]_vars


\* C14: filter(pred) returns exactly the entries of the computed store, and
\* filterRaw(pred) exactly those of the raw store, that are not nullish and
\* satisfy pred; no null entry is part of either result.
C14_FilterExcludesNullish ==
  \A pred \in Preds :
    /\ ManagerFilter(Mem, pred) =
         [id \in {i \in NonNull(recordWithComputeds) : Satisfies(pred, recordWithComputeds[i])}
            |-> recordWithComputeds[id]]
    /\ ManagerFilterRaw(Mem, pred) =
         [id \in {i \in NonNull(recordRaw) : Satisfies(pred, recordRaw[i])} |-> recordRaw[id]]


\* C15: length is the number of non-null entries of the computed store, the
\* number of entries of filter(() => true) and the number of items forEach
\* visits; a null entry is counted by none.
C15_LengthCountsNonNull ==
  /\ Length = Cardinality(NonNull(recordWithComputeds))
  /\ Length = Cardinality(DOMAIN ManagerFilter(Mem, "all"))
  /\ Length = Cardinality(ManagerForEach(Mem))
  /\ \A id \in DOMAIN recordWithComputeds :
       recordWithComputeds[id] = Null =>
         (id \notin DOMAIN ManagerFilter(Mem, "all") /\ id \notin ManagerForEach(Mem))

\* C15 happens: the computed store holds a null entry of "a" and a record of
\* "b", and length is 1.
C15_Witness ==
  /\ "a" \in DOMAIN recordWithComputeds /\ recordWithComputeds["a"] = Null
  /\ IsRecord(Get(recordWithComputeds, "b"))
  /\ Length = 1


\* C16: setChildOf(id, key, value) for an id the raw store holds no record
\* of (no entry, or a null one) changes nothing: the raw store, the computed
\* store, the cache metadata, the subscription table and the queued jobs are
\* what they were.
C16_SetChildOfAbsent ==
  [][\A id \in ids : \A key \in {<<"x">>, <<"y">>} : \A value \in {Num(v) : v \in 0..MaxX} :
       (/\ last' = [op |-> "setChildOf", id |-> id]
        /\ isNullish(Get(recordRaw, id))
        /\ SetChildOf(id, key, value)) =>
         UNCHANGED <<recordRaw, recordWithComputeds, cacheMeta, watches, live, queue>>]_vars

\* C16 happens: setChildOf was called for "a", which no store has an entry
\* of, while "b" holds a record.
C16_Witness ==
  /\ last = [op |-> "setChildOf", id |-> "a"]
  /\ "a" \notin DOMAIN recordRaw
  /\ "a" \notin DOMAIN recordWithComputeds
  /\ "a" \notin DOMAIN watches
  /\ IsRecord(Get(recordRaw, "b"))


\* C17: unset(id) of an id that none of the stores has an entry of leaves the
\* raw store, the computed store, the cache metadata and the subscription
\* table as they were; and after any unset(id), a second unset(id) leaves
\* the manager's memory as the first one left it.
C17_UnsetIdempotent ==
  [][\A id \in ids :
       (last' = [op |-> "unset", id |-> id] /\ Unset(id)) =>
         /\ (/\ id \notin DOMAIN recordRaw
             /\ id \notin DOMAIN recordWithComputeds
             /\ id \notin DOMAIN cacheMeta) =>
              UNCHANGED <<recordRaw, recordWithComputeds, cacheMeta, watches, live>>
         /\ ManagerUnset(Mem, id)' = Mem']_vars

\* C17 happens: unset("a") was called while no store had an entry of "a"
\* (the call has queued no job), and "b" holds a record.
C17_Witness ==
  /\ last = [op |-> "unset", id |-> "a"]
  /\ "a" \notin DOMAIN recordRaw
  /\ "a" \notin DOMAIN watches
  /\ IsRecord(Get(recordRaw, "b"))
  /\ "b" \in DOMAIN watches
  /\ queue = {[job |-> "watch", id |-> "b", k |-> "double"]}


\* C18: with persistence, when reset was the last public call the storage
\* holds nothing under the key the adapter keeps the records of the context
\* under, and a manager constructed on the storage has no record.
C18_ResetPurgesBlob ==
  (meta.persist /\ last.op = "reset") =>
    /\ RecordsKey \notin DOMAIN localStorage
    /\ NonNull(Construct(localStorage, [has |-> FALSE, entries |-> NoEntries]).recordWithComputeds) = {}
    /\ NonNull(Construct(localStorage, [has |-> FALSE, entries |-> NoEntries]).recordRaw) = {}


\* C19: isEqual(a, b) is true of two nullish values (null and undefined
\* included), false when exactly one is nullish or when the types differ, for
\* two objects true exactly when their deep diff has no entry, and for two
\* primitives true exactly when they are the same value.
C19_IsEqual ==
  call.fn = "isEqual" =>
    call.result =
      (CASE isNullish(call.a) /\ isNullish(call.b) -> TRUE
         [] isNullish(call.a) # isNullish(call.b) -> FALSE
         [] typeof(call.a) # typeof(call.b) -> FALSE
         [] IsObject(call.a) -> diffObjectsDeep(call.a, call.b, <<>>) = {}
         [] OTHER -> call.a = call.b)


\* C20: a stored value that is not JSON is loaded as the text it is, and the
\* manager constructed on it has an empty record set: no non-null entry in
\* either store and length 0, as on an empty storage.
C20_MalformedIsAbsent ==
  [][\A ls \in Storages :
       (RecordsKey \in DOMAIN ls /\ IsText(ls[RecordsKey]) /\ ConstructOn(ls)) =>
         /\ forceParse(ls[RecordsKey]) = ls[RecordsKey]
         /\ Length' = 0
         /\ NonNull(recordWithComputeds') = {}
         /\ NonNull(recordRaw') = {}
         /\ Stores(Construct(ls, [has |-> FALSE, entries |-> NoEntries])) =
              Stores(Construct(NoEntries, [has |-> FALSE, entries |-> NoEntries]))]_vars


\* C21: of two consecutive calls set(v1), set(v2) of one id whose derived
\* values differ, the recomputation for v1 is not skipped: when set(v2) is
\* issued the computed store holds the derived value of v1 (after it, the
\* derivation is only ever applied to v2).
C21_NoBatching ==
  [][\A id \in ids : \A item \in SetInputs(id) : \A k \in Fields :
       (/\ last = [op |-> "set", id |-> id]
        /\ last' = [op |-> "set", id |-> id]
        /\ IsRecord(Get(recordRaw, id))
        /\ Declared(k, recordRaw[id]) # Declared(k, item)
        /\ Set(item)) =>
         Cached(Mem, id, k) = Declared(k, recordRaw[id])]_vars


C23_PersistedWins ==
  [][\A initial \in Initials :
       Reload(initial) =>
         \A id \in DOMAIN PersistedRecords :
           PersistedFresh(id) =>
             /\ recordRaw'[id] = WithoutComputed(PersistedRecords[id])
             /\ ManagerGetRaw(Mem, id).ret' = WithoutComputed(PersistedRecords[id])]_vars

\* C23 happens: the storage holds the record of "a" with x = 0 and the
\* manager constructed on it with a meta.initial (its entries are watched)
\* has that record, not the one of meta.initial with the largest x.
C23_Witness ==
  /\ last.op = "construct"
  /\ "a" \in DOMAIN watches
  /\ "a" \in DOMAIN PersistedRecords
  /\ WithoutComputed(PersistedRecords["a"]) = Item("a", 0)
  /\ Get(recordRaw, "a") = Item("a", 0)
  /\ ManagerGetRaw(Mem, "a").ret = Item("a", 0)


\* C24: a flush runs the queued watches. The watch of (id, k) whose fresh
\* derived value is equal to the cached one leaves the entry of id as it is;
\* otherwise the cached value of k becomes the fresh one and every other
\* field of the entry is as before. An id with no queued watch keeps its
\* entry, and the raw store and the cache metadata are unchanged. The same
\* callback run for a second field "succ" leaves the cached double and the
\* other fields as they are.
C24_CallbackFrame ==
  [][Flush =>
       /\ recordRaw' = recordRaw
       /\ cacheMeta' = cacheMeta
       /\ \A id \in ids : \A k \in Fields :
            /\ (~Pending(id, k) \/ isEqual(Cached(Mem, id, k),
                                           Derive(k, recordRawGetter(Mem, id), <<>>))) =>
                 /\ (id \in DOMAIN recordWithComputeds') = (id \in DOMAIN recordWithComputeds)
                 /\ Get(recordWithComputeds', id) = Get(recordWithComputeds, id)
            /\ (Pending(id, k) /\ ~isEqual(Cached(Mem, id, k),
                                           Derive(k, recordRawGetter(Mem, id), <<>>))) =>
                 /\ Prop(Prop(Get(recordWithComputeds', id), "computed"), k) =
                      Derive(k, recordRawGetter(Mem, id), <<>>)
                 /\ \A p \in {"id", "x", "y"} :
                      Prop(Get(recordWithComputeds', id), p) = Prop(Get(recordWithComputeds, id), p)
            /\ \A v \in {Num(1), Num(3)} :
                 /\ WatchCallback(Mem, id, "succ", v).recordRaw = recordRaw
                 /\ WatchCallback(Mem, id, "succ", v).cacheMeta = cacheMeta
                 /\ Cached(WatchCallback(Mem, id, "succ", v), id, "succ") = v
                 /\ Cached(WatchCallback(Mem, id, "succ", v), id, k) = Cached(Mem, id, k)
                 /\ \A p \in {"id", "x", "y"} :
                      Prop(Get(WatchCallback(Mem, id, "succ", v).recordWithComputeds, id), p) =
                        Prop(Get(recordWithComputeds, id), p)
                 /\ \A other \in ids \ {id} :
                      Get(WatchCallback(Mem, id, "succ", v).recordWithComputeds, other) =
                        Get(recordWithComputeds, other)]_vars

\* C24 happens: the watch of "a" has written the double of the largest x into
\* the entry of "a", which still holds the record's fields, and the entry of
\* "b" is a record.
C24_Witness ==
  /\ last = [op |-> "set", id |-> "a"]
  /\ queue = {}
  /\ IsRecord(Get(recordWithComputeds, "b"))
  /\ IsRecord(Get(recordWithComputeds, "a"))
  /\ WithoutComputed(recordWithComputeds["a"]) = Item("a", MaxX)
  /\ Cached(Mem, "a", "double") = Num(2 * MaxX)


\* C25: the getter of a declared field called for an id with an extra
\* argument returns the derivation applied to the record and the argument
\* and leaves the cached value of the field for that id as it was; called
\* with a nullish target it returns the derivation applied without a target
\* and registers no watch.
C25_ExtraArgsBypass ==
  [][\A name \in Fields :
       /\ \A id \in ids :
            (last' = [op |-> "getter", id |-> id] /\ Getter(name, Str(id), <<1>>)) =>
              /\ cacheMappedComputedGetters(Mem, name, Str(id), <<1>>).ret =
                   Derive(name, recordRawGetter(Mem, id), <<1>>)
              /\ Cached(Mem, id, name)' = Cached(Mem, id, name)
       /\ \A args \in {<<>>, <<1>>} :
            (last' = [op |-> "getter", id |-> ""] /\ Getter(name, Undefined, args)) =>
              /\ cacheMappedComputedGetters(Mem, name, Undefined, args).ret =
                   Derive(name, Undefined, args)
              /\ watches' = watches
              /\ live' = live]_vars


\* the storage holds the JSON of the non-nullish entries of the computed
\* store and of the cache metadata
WrittenBack ==
  /\ PersistedRecords = Stringify(objectFilter(recordWithComputeds, nullishFilter))
  /\ PersistedMeta = Stringify(objectFilter(cacheMeta, nullishFilter))

\* C26: with persistence, whenever no write-back is queued the storage holds
\* exactly the non-nullish entries of the computed store and of the cache
\* metadata, and a state in which it does not (a mutating call has returned
\* before the write) is followed by one in which it does.
C26_EventuallyWrittenBack ==
  /\ [](queue = {} => WrittenBack)
  /\ (~WrittenBack ~> WrittenBack)

\* C26 happens: set has returned, the storage does not hold the record of
\* "a" yet and the write-back is queued.
C26_Witness ==
  /\ last = [op |-> "set", id |-> "a"]
  /\ IsRecord(Get(recordWithComputeds, "a"))
  /\ "a" \notin DOMAIN PersistedRecords
  /\ PersistJob(RecordsKey) \in queue
  /\ ~WrittenBack


\* C27: the storage never holds, under a key, a mapping without entries or
\* an entry whose value is nullish (a null tombstone is never written); and
\* once the queued write-backs have run, a key is present exactly when its
\* store holds a non-nullish entry, so it is removed when none remains.
C27_OnlyNonNullishPersisted ==
  /\ \A key \in DOMAIN localStorage :
       /\ DOMAIN localStorage[key] # {}
       /\ \A id \in DOMAIN localStorage[key] : ~isNullish(localStorage[key][id])
  /\ queue = {} =>
       /\ (RecordsKey \in DOMAIN localStorage) = (NonNull(recordWithComputeds) # {})
       /\ (CacheMetaKey \in DOMAIN localStorage) = (NonNull(cacheMeta) # {})

\* C27 happens: the record of "a" and its metadata were persisted, the
\* manager constructed later swept them, leaving null entries, and the
\* write-backs have removed both keys.
C27_Witness ==
  /\ last.op = "construct"
  /\ queue = {}
  /\ "a" \in DOMAIN recordWithComputeds /\ recordWithComputeds["a"] = Null
  /\ "a" \in DOMAIN cacheMeta /\ cacheMeta["a"] = Null
  /\ RecordsKey \notin DOMAIN localStorage
  /\ CacheMetaKey \notin DOMAIN localStorage


\* the paths of a nested structure that lead to a value that is not an object
RECURSIVE LeafPaths(_, _)
LeafPaths(v, path) ==
  IF IsObject(v) THEN UNION {LeafPaths(v.f[key], Append(path, key)) : key \in DOMAIN v.f}
  ELSE {path}

\* C28: diffObjectsDeep(prev, next) of two objects returns a mapping whose
\* keys are the joined leaf paths of prev or next at which the two hold
\* different values, each with the value prev and the value next hold at the
\* path, and the mapping is empty exactly when prev and next are deeply equal.
C28_DiffDeep ==
  (call.fn = "diffObjectsDeep" /\ IsObject(call.a) /\ IsObject(call.b)) =>
    /\ DOMAIN call.result =
         {Join(p) : p \in {q \in LeafPaths(call.a, <<>>) \cup LeafPaths(call.b, <<>>) :
                             ValueAt(call.a, q) # ValueAt(call.b, q)}}
    /\ \A p \in LeafPaths(call.a, <<>>) \cup LeafPaths(call.b, <<>>) :
         ValueAt(call.a, p) # ValueAt(call.b, p) =>
           call.result[Join(p)] = [prev |-> ValueAt(call.a, p), next |-> ValueAt(call.b, p)]
    /\ (DOMAIN call.result = {}) = (call.a = call.b)


\* C29: a call of a declared field's getter, for an id or for no target and
\* with or without an extra argument, and a call of resetComputed leave the
\* raw store and the cache metadata as they were and the non-null entries of
\* the computed store on the ids they were on, and so does the flush that
\* follows such a call; length is then what it was.
C29_ReadsLeaveRecords ==
  [][(\/ \E name \in Fields : \E maybeID \in {Str(id) : id \in ids} \cup {Undefined} :
          \E args \in {<<>>, <<1>>} : Getter(name, maybeID, args)
      \/ ResetComputed
      \/ (last.op \in {"getter", "resetComputed"} /\ Flush)) =>
       /\ recordRaw' = recordRaw
       /\ cacheMeta' = cacheMeta
       /\ NonNull(recordWithComputeds') = NonNull(recordWithComputeds)
       /\ Length' = Length]_vars


\* C30: with persistence, starting from an empty storage, the ids that have
\* a non-null entry of the cache metadata are in every reachable state the
\* ids that have a non-null record in the raw store.
C30_MetadataIffRecord ==
  NonNull(cacheMeta) = NonNull(recordRaw)


\* C30 happens: the record of "a" and its metadata were set and written
\* back, and a manager constructed on that storage holds both (and no watch
\* of "a" yet).
C30_Witness ==
  /\ last.op = "construct"
  /\ "a" \notin DOMAIN watches
  /\ IsRecord(Get(recordRaw, "a"))
  /\ NonNull(cacheMeta) = {"a"}
  /\ RecordsKey \in DOMAIN localStorage
  /\ CacheMetaKey \in DOMAIN localStorage

====
